---- MODULE Spec2Model ----
(***************************************************************************)
(* Model of web/js/loadimagex.js: the PNG text-chunk reader                *)
(* (parsePNGMetadata), the prompt resolver (extractPromptsFromWorkflow     *)
(* with its inner extractTextFromNode) and the orchestration               *)
(* (updatePromptsFromImage, driven by the image widget's callback).        *)
(***************************************************************************)
EXTENDS Integers, Sequences, FiniteSets, TLC

VARIABLES
    \* ---- extractPromptsFromWorkflow ----
    workflow,        \* the argument: [present, nodes]; nodes in for-in order
    pc,              \* position inside extractPromptsFromWorkflow
    positiveNodeId,  \* let positiveNodeId (line 112); NoId models null
    negativeNodeId,  \* let negativeNodeId (line 113)
    prompts,         \* const prompts = {positive, negative} (line 73)
    stack,           \* activation records of extractTextFromNode
    visited,         \* the Set shared by one top-level extractTextFromNode call
    ret,             \* the last return of extractTextFromNode: [id, v]
    outcome,         \* "running" | "returned" | "raised": how the call ended
    \* ---- parsePNGMetadata ----
    buffer,          \* the ArrayBuffer, a sequence of bytes
    offset,          \* let offset (line 44)
    metadata,        \* const metadata = {} (line 33): a function keyword -> value
    chunks,          \* the chunk records the buffer was written from
    pngPc,           \* position inside parsePNGMetadata
    pngResult,       \* "none" | "null" | "metadata" | "RangeError"
    \* ---- updatePromptsFromImage / imageWidget.callback ----
    widgets,         \* the node's positive_prompt / negative_prompt widgets
    calls,           \* the updatePromptsFromImage invocations, in firing order
    selected,        \* imageWidget.value: the name of the selected image
    timer            \* the setTimeout of onNodeCreated is still pending

resolverVars == <<workflow, pc, positiveNodeId, negativeNodeId, prompts, stack,
                  visited, ret, outcome>>
pngVars == <<buffer, offset, metadata, chunks, pngPc, pngResult>>
updVars == <<widgets, calls, selected, timer>>
vars == <<resolverVars, pngVars, updVars>>

(***************************************************************************)
(* Bounds of the model.                                                    *)
(***************************************************************************)
MaxNodes == 3
MaxChunks == 2
MaxCalls == 2

(***************************************************************************)
(* JavaScript values.  A string used only as a whole is a TLA+ string; a   *)
(* string that is searched (an input key, a title) is a sequence of        *)
(* one-character strings.                                                  *)
(***************************************************************************)
Str(s) == [k |-> "str", s |-> s, id |-> 0]
\* a producer edge [node_id, slot]: the array [id, 0]
Edge(i) == [k |-> "edge", s |-> "", id |-> i]
Undef == [k |-> "undef", s |-> "", id |-> 0]

Truthy(v) == v.k = "edge" \/ (v.k = "str" /\ v.s # "")
IsArray(v) == v.k = "edge"
IsString(v) == v.k = "str"
\* String(x) of a node id held in an edge
String(i) == ToString(i)
\* the string an array element or a literal turns into inside Array.join
JoinStr(v) == CASE v.k = "str" -> v.s
                [] v.k = "edge" -> String(v.id) \o ",0"
                [] OTHER -> ""
\* null for a node id; a node id of the model is never the empty string
NoId == ""

UpperCase == <<"A","B","C","D","E","F","G","H","I","J","K","L","M",
               "N","O","P","Q","R","S","T","U","V","W","X","Y","Z">>
LowerCase == <<"a","b","c","d","e","f","g","h","i","j","k","l","m",
               "n","o","p","q","r","s","t","u","v","w","x","y","z">>
LowerChar(c) == IF \E i \in 1..26 : UpperCase[i] = c
                THEN LowerCase[CHOOSE i \in 1..26 : UpperCase[i] = c]
                ELSE c
toLowerCase(cs) == [i \in 1..Len(cs) |-> LowerChar(cs[i])]
includes(cs, sub) ==
    \E i \in 1..(Len(cs) - Len(sub) + 1) : SubSeq(cs, i, i + Len(sub) - 1) = sub

cNegative == <<"n","e","g","a","t","i","v","e">>
cNag == <<"n","a","g">>

\* input names
kPositive == <<"p","o","s","i","t","i","v","e">>
kCondPositive == <<"c","o","n","d","i","t","i","o","n","i","n","g","_",
                   "p","o","s","i","t","i","v","e">>
kPos == <<"p","o","s">>
kNegative == cNegative
kCondNegative == <<"c","o","n","d","i","t","i","o","n","i","n","g","_",
                   "n","e","g","a","t","i","v","e">>
kNagNegative == <<"n","a","g","_","n","e","g","a","t","i","v","e">>
kNeg == <<"n","e","g">>
kText == <<"t","e","x","t">>
kPrompt == <<"p","r","o","m","p","t">>
kClipL == <<"c","l","i","p","_","l">>
kT5xxl == <<"t","5","x","x","l">>
kConditioning == <<"c","o","n","d","i","t","i","o","n","i","n","g">>
kStringA == <<"s","t","r","i","n","g","_","a">>
kStringB == <<"s","t","r","i","n","g","_","b">>
kDelimiter == <<"d","e","l","i","m","i","t","e","r">>
kString == <<"s","t","r","i","n","g">>
kPopulated == <<"p","o","p","u","l","a","t","e","d","_","t","e","x","t">>
kWildcard == <<"w","i","l","d","c","a","r","d","_","t","e","x","t">>
kClip == <<"c","l","i","p">>
kNagCond == <<"N","A","G","_","c","o","n","d">>
\* `conditioning${i}`
kConditioningN(i) == kConditioning \o <<ToString(i)>>

INPUT_PATTERNS == [positive |-> <<kPositive, kCondPositive, kPos>>,
                   negative |-> <<kNegative, kCondNegative, kNagNegative, kNeg>>]

(***************************************************************************)
(* Nodes.  inputs is the object's own properties in insertion order.       *)
(***************************************************************************)
NoTitle == [k |-> "undef", c |-> <<>>]
Title(cs) == [k |-> "str", c |-> cs]
\* a _meta.title that is a number
NumTitle == [k |-> "num", c |-> <<>>]

Node(ct, ins, t) ==
    [wf |-> TRUE, class_type |-> ct, hasInputs |-> TRUE, inputs |-> ins, title |-> t]
\* a node without an inputs property
BareNode(ct) ==
    [wf |-> TRUE, class_type |-> ct, hasInputs |-> FALSE, inputs |-> <<>>,
     title |-> NoTitle]
\* a graph entry that is null
NullEntry ==
    [wf |-> FALSE, class_type |-> "", hasInputs |-> FALSE, inputs |-> <<>>,
     title |-> NoTitle]

\* node.inputs[key]
Input(node, key) ==
    IF \E j \in 1..Len(node.inputs) : node.inputs[j][1] = key
    THEN node.inputs[CHOOSE j \in 1..Len(node.inputs) : node.inputs[j][1] = key][2]
    ELSE Undef

\* workflow[id]: present when id is the key of an entry
HasNode(w, id) == \E i \in 1..Len(w.nodes) : String(i) = id
NodeAt(w, id) == w.nodes[CHOOSE i \in 1..Len(w.nodes) : String(i) = id]

(***************************************************************************)
(* extractPromptsFromWorkflow, steps 1-3: the channel match.               *)
(***************************************************************************)
\* node.inputs[pattern] && Array.isArray(node.inputs[pattern])
IsEdgeInput(node, pattern) ==
    Truthy(Input(node, pattern)) /\ IsArray(Input(node, pattern))
\* INPUT_PATTERNS.x.some(pattern => ...)
HasChannel(node, patterns) ==
    \E j \in 1..Len(patterns) : IsEdgeInput(node, patterns[j])

\* reading node.inputs of a null entry is a TypeError
Step1Throws(w) == \E i \in 1..Len(w.nodes) : ~w.nodes[i].wf

RECURSIVE CandidatesFrom(_, _)
CandidatesFrom(w, i) ==
    IF i > Len(w.nodes) THEN <<>>
    ELSE LET node == w.nodes[i]
             hasPositive == HasChannel(node, INPUT_PATTERNS.positive)
             hasNegative == HasChannel(node, INPUT_PATTERNS.negative)
             rest == CandidatesFrom(w, i + 1)
         IN  IF node.hasInputs /\ (hasPositive \/ hasNegative)
             THEN <<[nodeId |-> String(i), node |-> node,
                     hasPositive |-> hasPositive, hasNegative |-> hasNegative,
                     priority |-> (IF hasPositive THEN 1 ELSE 0)
                                  + (IF hasNegative THEN 1 ELSE 0)]>> \o rest
             ELSE rest
candidateNodes(w) == CandidatesFrom(w, 1)

\* the comparator with its operands swapped: ascending priority
ComparePriorityAscending(a, b) == a.priority - b.priority
\* the comparator of line 109: negative when a sorts before b
ComparePriority(a, b) == b.priority - a.priority

\* Array.prototype.sort is stable: x goes before the first element that the
\* comparator puts strictly after it
RECURSIVE InsertSorted(_, _)
InsertSorted(sorted, x) ==
    IF sorted = <<>> THEN <<x>>
    ELSE IF ComparePriority(x, Head(sorted)) < 0
         THEN <<x>> \o sorted
         ELSE <<Head(sorted)>> \o InsertSorted(Tail(sorted), x)
RECURSIVE SortFrom(_, _, _)
SortFrom(cands, i, acc) ==
    IF i > Len(cands) THEN acc
    ELSE SortFrom(cands, i + 1, InsertSorted(acc, cands[i]))
SortCandidates(cands) == SortFrom(cands, 1, <<>>)

\* the inner for loops of step 3: the first pattern, in pattern order, whose
\* input is a producer edge
RECURSIVE FirstEdgeFrom(_, _, _)
FirstEdgeFrom(node, patterns, j) ==
    IF j > Len(patterns) THEN NoId
    ELSE IF IsEdgeInput(node, patterns[j])
         THEN String(Input(node, patterns[j]).id)
         ELSE FirstEdgeFrom(node, patterns, j + 1)
FirstEdge(node, patterns) == FirstEdgeFrom(node, patterns, 1)

\* the loop of step 3 over the sorted candidates, with its break
RECURSIVE SelectFrom(_, _, _, _)
SelectFrom(cands, i, pos, neg) ==
    IF i > Len(cands) THEN [pos |-> pos, neg |-> neg]
    ELSE LET node == cands[i].node
             p == IF pos = NoId THEN FirstEdge(node, INPUT_PATTERNS.positive)
                  ELSE pos
             n == IF neg = NoId THEN FirstEdge(node, INPUT_PATTERNS.negative)
                  ELSE neg
         IN  IF p # NoId /\ n # NoId THEN [pos |-> p, neg |-> n]
             ELSE SelectFrom(cands, i + 1, p, n)
StageASelect(w) == SelectFrom(SortCandidates(candidateNodes(w)), 1, NoId, NoId)

(***************************************************************************)
(* Step 4: the scan of every producer edge.                                *)
(***************************************************************************)
textEncodingTypes == {"CLIPTextEncode", "CLIPTextEncodeFlux", "StringConcatenate",
                      "String Literal", "ImpactConcatConditionings",
                      "PCLazyTextEncode", "ImpactWildcardProcessor",
                      "TextEncodeQwenImageEdit"}
isTextEncodingNode(node) == node.class_type \in textEncodingTypes

\* node._meta?.title?.toLowerCase() of a title that is not a string
TitleThrows(node) == node.title.k = "num"
\* node._meta?.title?.toLowerCase().includes(sub), undefined (falsy) without title
TitleIncludes(node, sub) ==
    node.title.k = "str" /\ includes(toLowerCase(node.title.c), sub)

\* the key tests of isNegative (lines 154-155), which short-circuit the title
KeyIsNegative(inputKey) ==
    \/ includes(toLowerCase(inputKey), cNegative)
    \/ includes(toLowerCase(inputKey), cNag)
\* const isNegative (lines 154-156); node is the node that owns the input
isNegative(node, inputKey) ==
    KeyIsNegative(inputKey) \/ TitleIncludes(node, cNegative)

\* connectedNode && isTextEncodingNode(connectedNode)
ConnectsToTextNode(w, inputValue) ==
    /\ IsArray(inputValue)
    /\ HasNode(w, String(inputValue.id))
    /\ NodeAt(w, String(inputValue.id)).wf
    /\ isTextEncodingNode(NodeAt(w, String(inputValue.id)))

RECURSIVE ScanInputs(_, _, _, _)
ScanInputs(w, node, j, st) ==
    IF j > Len(node.inputs) \/ st.threw THEN st
    ELSE LET inputKey == node.inputs[j][1]
             inputValue == node.inputs[j][2]
         IN  IF ~ConnectsToTextNode(w, inputValue)
             THEN ScanInputs(w, node, j + 1, st)
             ELSE IF ~KeyIsNegative(inputKey) /\ TitleThrows(node)
             THEN [st EXCEPT !.threw = TRUE]
             ELSE IF isNegative(node, inputKey) /\ st.neg = NoId
             THEN ScanInputs(w, node, j + 1,
                             [st EXCEPT !.neg = String(inputValue.id)])
             ELSE IF ~isNegative(node, inputKey) /\ st.pos = NoId
             THEN ScanInputs(w, node, j + 1,
                             [st EXCEPT !.pos = String(inputValue.id)])
             ELSE ScanInputs(w, node, j + 1, st)
RECURSIVE ScanNodes(_, _, _)
ScanNodes(w, i, st) ==
    IF i > Len(w.nodes) \/ st.threw THEN st
    ELSE IF ~w.nodes[i].wf THEN [st EXCEPT !.threw = TRUE]
    ELSE IF ~w.nodes[i].hasInputs THEN ScanNodes(w, i + 1, st)
    ELSE ScanNodes(w, i + 1, ScanInputs(w, w.nodes[i], 1, st))
\* step 4 as a whole, from the ids step 3 left
StageBScan(w, pos, neg) ==
    IF pos # NoId /\ neg # NoId THEN [pos |-> pos, neg |-> neg, threw |-> FALSE]
    ELSE ScanNodes(w, 1, [pos |-> pos, neg |-> neg, threw |-> FALSE])

(***************************************************************************)
(* extractTextFromNode.  A frame is one activation: the node id it was     *)
(* called with, the operands it still has to resolve (todo), the parts it  *)
(* has collected, and how it combines them when it returns.                *)
(***************************************************************************)
MaxConditioning == 10

\* a || b || ""
OrElse(a, b) == IF Truthy(a) THEN a ELSE IF Truthy(b) THEN b ELSE Str("")

RECURSIVE ConditioningEdges(_, _)
ConditioningEdges(node, i) ==
    IF i > MaxConditioning THEN <<>>
    ELSE IF IsEdgeInput(node, kConditioningN(i))
         THEN <<Input(node, kConditioningN(i))>> \o ConditioningEdges(node, i + 1)
         ELSE ConditioningEdges(node, i + 1)

Returns(v) == [kind |-> "ret", v |-> v, mode |-> "", todo |-> <<>>, delim |-> ""]
Recurses(mode, todo, delim) ==
    [kind |-> "frame", v |-> Undef, mode |-> mode, todo |-> todo, delim |-> delim]
\* a text-bearing field: follow it when it is an edge, else it is the text
FieldOrEdge(v) == IF IsArray(v) THEN Recurses("pass", <<v>>, "") ELSE Returns(v)

\* the if / else-if chain of lines 194-295
Dispatch(node) ==
    LET ct == node.class_type
        has == node.hasInputs
    IN  IF ct = "ImpactWildcardProcessor" /\ has
        THEN Returns(OrElse(Input(node, kPopulated), Input(node, kWildcard)))
        ELSE IF ct = "PCLazyTextEncode" /\ has /\ Truthy(Input(node, kText))
        THEN FieldOrEdge(Input(node, kText))
        ELSE IF ct = "ChromaPaddingRemoval" /\ has /\ Truthy(Input(node, kConditioning))
        THEN IF IsArray(Input(node, kConditioning))
             THEN Recurses("pass", <<Input(node, kConditioning)>>, "")
             ELSE Returns(Str(""))
        ELSE IF ct = "ImpactConcatConditionings" /\ has
        THEN Recurses("concat", ConditioningEdges(node, 1), "\n\n")
        ELSE IF ct = "CLIPTextEncode" /\ has /\ Truthy(Input(node, kText))
        THEN FieldOrEdge(Input(node, kText))
        ELSE IF ct = "CLIPTextEncodeFlux" /\ has
        THEN FieldOrEdge(OrElse(Input(node, kClipL), Input(node, kT5xxl)))
        ELSE IF ct = "StringConcatenate" /\ has
        THEN Recurses("join",
                      (IF Truthy(Input(node, kStringA))
                       THEN <<Input(node, kStringA)>> ELSE <<>>)
                      \o (IF Truthy(Input(node, kStringB))
                          THEN <<Input(node, kStringB)>> ELSE <<>>),
                      JoinStr(OrElse(Input(node, kDelimiter), Str(""))))
        ELSE IF ct = "String Literal" /\ has /\ Input(node, kString).k # "undef"
        THEN Returns(Input(node, kString))
        ELSE IF ct = "TextEncodeQwenImageEdit" /\ has /\ Truthy(Input(node, kPrompt))
        THEN FieldOrEdge(Input(node, kPrompt))
        ELSE Returns(Str(""))

\* Array.prototype.join
RECURSIVE Join(_, _)
Join(parts, delim) ==
    IF parts = <<>> THEN ""
    ELSE IF Len(parts) = 1 THEN JoinStr(parts[1])
    ELSE JoinStr(parts[1]) \o delim \o Join(Tail(parts), delim)

\* the value a frame returns once todo is empty
Combine(f) == IF f.mode = "pass" THEN f.parts[1] ELSE Str(Join(f.parts, f.delim))

\* literal operands at the head of todo are pushed without a call
RECURSIVE Advance(_)
Advance(f) ==
    IF f.todo # <<>> /\ ~IsArray(Head(f.todo))
    THEN Advance([f EXCEPT !.todo = Tail(f.todo), !.parts = Append(f.parts, Head(f.todo))])
    ELSE f

NewFrame(id) == [id |-> id, st |-> "new", mode |-> "", todo |-> <<>>,
                 parts |-> <<>>, delim |-> ""]

\* the caller takes the value: `if (text) push` in the multi-concat, push in
\* the string-concatenate, return it as it is elsewhere
Receive(f, v) ==
    IF f.mode = "concat" /\ ~Truthy(v) THEN Advance(f)
    ELSE Advance([f EXCEPT !.parts = Append(f.parts, v)])

(***************************************************************************)
(* The title/type fallback (lines 307-338).                                *)
(***************************************************************************)
\* title.includes("negative") || title.includes("nag"), title lower-cased
FallbackTitleIsNegative(node) ==
    TitleIncludes(node, cNegative) \/ TitleIncludes(node, cNag)

\* one node of the loop: st is [positive, negative, threw]
FallbackAssign(st, nodeId, node, text, pos, neg) ==
    IF TitleThrows(node) THEN [st EXCEPT !.threw = TRUE]
    ELSE IF FallbackTitleIsNegative(node)
    THEN IF ~Truthy(st.negative) THEN [st EXCEPT !.negative = text] ELSE st
    ELSE IF ~Truthy(st.positive) /\ nodeId # pos /\ nodeId # neg
    THEN [st EXCEPT !.positive = text]
    ELSE st

RECURSIVE FallbackFrom(_, _, _, _, _)
FallbackFrom(w, i, st, pos, neg) ==
    IF i > Len(w.nodes) \/ st.threw THEN st
    ELSE LET node == w.nodes[i]
         IN  IF ~node.wf THEN [st EXCEPT !.threw = TRUE]
             ELSE IF node.class_type = "CLIPTextEncode" /\ node.hasInputs
                     /\ Truthy(Input(node, kText))
             THEN FallbackFrom(w, i + 1,
                      FallbackAssign(st, String(i), node, Input(node, kText), pos, neg),
                      pos, neg)
             ELSE IF node.class_type = "CLIPTextEncodeFlux" /\ node.hasInputs
             THEN FallbackFrom(w, i + 1,
                      FallbackAssign(st, String(i), node,
                                     OrElse(Input(node, kClipL), Input(node, kT5xxl)),
                                     pos, neg),
                      pos, neg)
             ELSE FallbackFrom(w, i + 1, st, pos, neg)

FallbackScan(w, p, pos, neg) ==
    IF Truthy(p.positive) /\ Truthy(p.negative)
    THEN [positive |-> p.positive, negative |-> p.negative, threw |-> FALSE]
    ELSE FallbackFrom(w, 1, [positive |-> p.positive, negative |-> p.negative,
                             threw |-> FALSE], pos, neg)

(***************************************************************************)
(* The steps of extractPromptsFromWorkflow.                                *)
(***************************************************************************)
pngIdle == UNCHANGED pngVars
updIdle == UNCHANGED updVars

\* an entry that drops the null entries from the caller's graph
EnterSanitizing ==
    /\ pc = "start"
    /\ IF ~workflow.present
       THEN pc' = "done" /\ outcome' = "returned" /\ workflow' = workflow
       ELSE /\ pc' = "stageA" /\ outcome' = outcome
            /\ workflow' = [workflow EXCEPT !.nodes = SelectSeq(@, LAMBDA e : e.wf)]
    /\ UNCHANGED <<positiveNodeId, negativeNodeId, prompts, stack, visited, ret>>
    /\ pngIdle /\ updIdle
\* lines 73-74
Enter ==
    /\ pc = "start"
    /\ IF ~workflow.present
       THEN pc' = "done" /\ outcome' = "returned"
       ELSE pc' = "stageA" /\ outcome' = outcome
    /\ UNCHANGED <<workflow, positiveNodeId, negativeNodeId, prompts, stack, visited, ret>>
    /\ pngIdle /\ updIdle

\* lines 83-140
StageA ==
    /\ pc = "stageA"
    /\ IF Step1Throws(workflow)
       THEN pc' = "catch" /\ UNCHANGED <<positiveNodeId, negativeNodeId>>
       ELSE /\ pc' = "stageB"
            /\ positiveNodeId' = StageASelect(workflow).pos
            /\ negativeNodeId' = StageASelect(workflow).neg
    /\ UNCHANGED <<workflow, prompts, stack, visited, ret, outcome>>
    /\ pngIdle /\ updIdle

\* lines 142-168
StageB ==
    /\ pc = "stageB"
    /\ LET r == StageBScan(workflow, positiveNodeId, negativeNodeId)
       IN  IF r.threw
           THEN pc' = "catch" /\ UNCHANGED <<positiveNodeId, negativeNodeId>>
           ELSE /\ pc' = "extractPos"
                /\ positiveNodeId' = r.pos
                /\ negativeNodeId' = r.neg
    /\ UNCHANGED <<workflow, prompts, stack, visited, ret, outcome>>
    /\ pngIdle /\ updIdle

\* lines 299-301: the call extractTextFromNode(positiveNodeId), a fresh Set
BeginPositive ==
    /\ pc = "extractPos"
    /\ IF positiveNodeId # NoId
       THEN pc' = "inPos" /\ stack' = <<NewFrame(positiveNodeId)>> /\ visited' = {}
       ELSE pc' = "extractNeg" /\ UNCHANGED <<stack, visited>>
    /\ UNCHANGED <<workflow, positiveNodeId, negativeNodeId, prompts, ret, outcome>>
    /\ pngIdle /\ updIdle

\* lines 303-305
BeginNegative ==
    /\ pc = "extractNeg"
    /\ IF negativeNodeId # NoId
       THEN pc' = "inNeg" /\ stack' = <<NewFrame(negativeNodeId)>> /\ visited' = {}
       ELSE pc' = "fallback" /\ UNCHANGED <<stack, visited>>
    /\ UNCHANGED <<workflow, positiveNodeId, negativeNodeId, prompts, ret, outcome>>
    /\ pngIdle /\ updIdle

\* the value v leaves the top frame: to the frame below, or to prompts
Deliver(v) ==
    /\ ret' = [id |-> stack[Len(stack)].id, v |-> v]
    /\ IF Len(stack) = 1
       THEN /\ stack' = <<>>
            /\ IF pc = "inPos"
               THEN pc' = "extractNeg" /\ prompts' = [prompts EXCEPT !.positive = v]
               ELSE pc' = "fallback" /\ prompts' = [prompts EXCEPT !.negative = v]
       ELSE /\ stack' = SubSeq(stack, 1, Len(stack) - 2)
                         \o <<Receive(stack[Len(stack) - 1], v)>>
            /\ UNCHANGED <<pc, prompts>>

\* the guard without its visited.add
MarkVisitedForgotten(seen, nodeId) == seen
\* visited.add(nodeId) (line 188)
MarkVisited(seen, nodeId) == seen \cup {nodeId}

\* lines 187-191 and the dispatch: entry of extractTextFromNode
ExtractCall ==
    /\ pc \in {"inPos", "inNeg"}
    /\ stack # <<>>
    /\ stack[Len(stack)].st = "new"
    /\ LET f == stack[Len(stack)]
       IN  IF f.id = NoId \/ f.id \in visited
           THEN Deliver(Str("")) /\ UNCHANGED visited
           ELSE /\ visited' = MarkVisited(visited, f.id)
                /\ IF ~HasNode(workflow, f.id) \/ ~NodeAt(workflow, f.id).wf
                   THEN Deliver(Str(""))
                   ELSE LET d == Dispatch(NodeAt(workflow, f.id))
                        IN  IF d.kind = "ret"
                            THEN Deliver(d.v)
                            ELSE /\ stack' = [stack EXCEPT ![Len(stack)] =
                                        Advance([f EXCEPT !.st = "run", !.mode = d.mode,
                                                 !.todo = d.todo, !.delim = d.delim])]
                                 /\ UNCHANGED <<pc, prompts, ret>>
    /\ UNCHANGED <<workflow, positiveNodeId, negativeNodeId, outcome>>
    /\ pngIdle /\ updIdle

\* a frame past its dispatch: the next recursive call, or its return
ExtractStep ==
    /\ pc \in {"inPos", "inNeg"}
    /\ stack # <<>>
    /\ stack[Len(stack)].st = "run"
    /\ LET f == stack[Len(stack)]
       IN  IF f.todo = <<>>
           THEN Deliver(Combine(f))
           ELSE /\ stack' = [stack EXCEPT ![Len(stack)].todo = Tail(f.todo)]
                             \o <<NewFrame(String(Head(f.todo).id))>>
                /\ UNCHANGED <<pc, prompts, ret>>
    /\ UNCHANGED <<workflow, positiveNodeId, negativeNodeId, visited, outcome>>
    /\ pngIdle /\ updIdle

\* lines 307-338
Fallback ==
    /\ pc = "fallback"
    /\ LET r == FallbackScan(workflow, prompts, positiveNodeId, negativeNodeId)
       IN  /\ prompts' = [positive |-> r.positive, negative |-> r.negative]
           /\ pc' = IF r.threw THEN "catch" ELSE "return"
    /\ UNCHANGED <<workflow, positiveNodeId, negativeNodeId, stack, visited, ret, outcome>>
    /\ pngIdle /\ updIdle

\* the stages without the try around them: the error reaches the caller
CatchMissing ==
    /\ pc = "catch"
    /\ pc' = "done"
    /\ outcome' = "raised"
    /\ UNCHANGED <<workflow, positiveNodeId, negativeNodeId, prompts, stack, visited, ret>>
    /\ pngIdle /\ updIdle
\* lines 340-342: the catch of the try that wraps every stage
Catch ==
    /\ pc = "catch"
    /\ pc' = "return"
    /\ UNCHANGED <<workflow, positiveNodeId, negativeNodeId, prompts, stack, visited,
                   ret, outcome>>
    /\ pngIdle /\ updIdle

\* line 344
Return ==
    /\ pc = "return"
    /\ pc' = "done"
    /\ outcome' = "returned"
    /\ UNCHANGED <<workflow, positiveNodeId, negativeNodeId, prompts, stack, visited, ret>>
    /\ pngIdle /\ updIdle

(***************************************************************************)
(* The graphs the resolver is run on: every graph of at most MaxNodes      *)
(* entries, keys "1".."n", each entry drawn from the node shapes below.    *)
(* The edges of the entry at key i lead to the next key (cyclically), to   *)
(* the key after it, or to key 0, which no graph has.                      *)
(***************************************************************************)
tNegativePrompt == <<"N","e","g","a","t","i","v","e"," ","P","r","o","m","p","t">>
tNegativeMix == <<"N","E","G","A","T","I","V","E"," ","m","i","x">>
tNagText == <<"N","A","G"," ","t","e","x","t">>

Next1(i, n) == (i % n) + 1
Next2(i, n) == ((i + 1) % n) + 1

Shapes(i, n) == <<
    Node("KSampler", << <<kPositive, Edge(Next1(i, n))>>,
                        <<kNegative, Edge(Next2(i, n))>> >>, NoTitle),
    Node("BasicGuider", << <<kPos, Edge(Next2(i, n))>>,
                           <<kCondPositive, Edge(Next1(i, n))>> >>, NoTitle),
    Node("NAGGuider", << <<kNagNegative, Edge(Next1(i, n))>> >>, NoTitle),
    Node("ApplyStyle", << <<kClip, Edge(Next1(i, n))>> >>, Title(tNegativeMix)),
    Node("ApplyStyle", << <<kClip, Edge(Next1(i, n))>>,
                          <<kNagCond, Edge(Next2(i, n))>> >>, NoTitle),
    Node("CLIPTextEncode", << <<kText, Str("cat")>> >>, NoTitle),
    Node("CLIPTextEncode", << <<kText, Str("dog")>> >>, Title(tNegativePrompt)),
    Node("CLIPTextEncode", << <<kText, Edge(Next1(i, n))>> >>, Title(tNagText)),
    Node("StringConcatenate", << <<kStringA, Edge(Next1(i, n))>>,
                                 <<kDelimiter, Str("-")>>,
                                 <<kStringB, Edge(Next1(i, n))>> >>, NoTitle),
    Node("StringConcatenate", << <<kStringA, Str("")>>,
                                 <<kDelimiter, Str("-")>>,
                                 <<kStringB, Edge(Next1(i, n))>> >>, NoTitle),
    Node("ImpactConcatConditionings",
         << <<kConditioningN(1), Edge(Next1(i, n))>>,
            <<kConditioningN(2), Edge(Next2(i, n))>>,
            <<kConditioningN(3), Edge(0)>> >>, NoTitle),
    Node("CLIPTextEncodeFlux", << <<kClipL, Str("")>>, <<kT5xxl, Str("bird")>> >>,
         NoTitle),
    Node("CLIPTextEncode", << <<kText, Str("cat")>> >>, NumTitle),
    BareNode("CLIPTextEncode"),
    NullEntry >>
NumShapes == Len(Shapes(1, 1))

NullGraph == [present |-> FALSE, nodes |-> <<>>]
Graph(n, pick) == [present |-> TRUE, nodes |-> [i \in 1..n |-> Shapes(i, n)[pick[i]]]]
NoPrompts == [positive |-> Str(""), negative |-> Str("")]

ResolverInit ==
    /\ \/ workflow = NullGraph
       \/ \E n \in 0..MaxNodes : \E pick \in [1..n -> 1..NumShapes] :
              workflow = Graph(n, pick)
    /\ pc = "start"
    /\ positiveNodeId = NoId
    /\ negativeNodeId = NoId
    /\ prompts = NoPrompts
    /\ stack = <<>>
    /\ visited = {}
    /\ ret = [id |-> NoId, v |-> Undef]
    /\ outcome = "running"
ResolverIdle ==
    /\ workflow = NullGraph
    /\ pc = "idle"
    /\ positiveNodeId = NoId
    /\ negativeNodeId = NoId
    /\ prompts = NoPrompts
    /\ stack = <<>>
    /\ visited = {}
    /\ ret = [id |-> NoId, v |-> Undef]
    /\ outcome = "running"
PngIdleInit ==
    /\ buffer = <<>>
    /\ offset = 0
    /\ metadata = <<>>
    /\ chunks = <<>>
    /\ pngPc = "idle"
    /\ pngResult = "none"
UpdIdleInit ==
    /\ widgets = [positive |-> Str(""), negative |-> Str(""),
                  hasPositive |-> TRUE, hasNegative |-> TRUE]
    /\ calls = <<>>
    /\ selected = ""
    /\ timer = FALSE

Init == ResolverInit /\ PngIdleInit /\ UpdIdleInit
Next ==
    \/ Enter
    \/ StageA
    \/ StageB
    \/ BeginPositive
    \/ BeginNegative
    \/ ExtractCall
    \/ ExtractStep
    \/ Fallback
    \/ Catch
    \/ Return
Spec == Init /\ [][Next]_vars

\* extractTextFromNode is synchronous: once called it runs on until it returns
FairSpec == Spec /\ WF_vars(ExtractCall \/ ExtractStep)

(***************************************************************************)
(* Properties of extractPromptsFromWorkflow.                               *)
(***************************************************************************)
TopFrame == stack[Len(stack)]
Extracting == pc \in {"inPos", "inNeg"} /\ stack # <<>>

\* C1: whatever the graph (null, nodes without inputs, edges to ids the graph
\* does not have, entries that are not nodes), the call ends by returning a
\* {positive, negative} result and never by raising; a null graph gives
\* {positive: "", negative: ""}; a call of extractTextFromNode for an id the
\* graph does not have returns "".
ResolverNeverRaises ==
    /\ outcome # "raised"
    /\ pc \in {"start", "stageA", "stageB", "extractPos", "inPos", "extractNeg",
               "inNeg", "fallback", "catch", "return", "done"}
    /\ pc \in {"inPos", "inNeg"} => stack # <<>>
    /\ pc = "done" => outcome = "returned" /\ DOMAIN prompts = {"positive", "negative"}
    /\ (pc = "done" /\ ~workflow.present) => prompts = NoPrompts
    /\ (ret.id # NoId /\ ~HasNode(workflow, ret.id)) => ret.v = Str("")
\* a graph with a null entry was resolved: the TypeError was caught
CaughtErrorReturned ==
    /\ pc = "done" /\ outcome = "returned"
    /\ workflow.present /\ Step1Throws(workflow)
    /\ prompts = NoPrompts

\* C2: the recursion of extractTextFromNode ends on every graph, cyclic or
\* not: the depth of the recursion never exceeds the number of ids marked
\* visited plus one, a call for an id already visited returns "" without
\* marking or descending, and every top-level call that has started returns.
CycleSafety ==
    /\ [](Len(stack) <= Cardinality(visited) + 1)
    /\ [][(Extracting /\ TopFrame.st = "new" /\ TopFrame.id \in visited)
          => (ret' = [id |-> TopFrame.id, v |-> Str("")]
              /\ visited' = visited
              /\ Len(stack') = Len(stack) - 1)]_vars
    /\ (Extracting ~> (stack = <<>>))
\* a node returned "" to a call made below its own activation: a cycle was cut
CycleWasCut ==
    /\ Extracting
    /\ ret.v = Str("")
    /\ \E j \in 1..Len(stack) : stack[j].id = ret.id /\ stack[j].st = "run"

\* C6: both fields of the result are strings, never a producer edge or
\* another non-string value.
ResultFieldsAreStrings ==
    pc = "done" => IsString(prompts.positive) /\ IsString(prompts.negative)

\* C8: no step of extractPromptsFromWorkflow changes the graph it was given.
GraphNeverMutated == [][workflow' = workflow]_vars
\* a call that went through every stage: the positive side resolved by the
\* recursion, the negative side by the title/type fallback
AllStagesTaken ==
    /\ pc = "done" /\ workflow.present
    /\ positiveNodeId # NoId /\ Truthy(prompts.positive)
    /\ negativeNodeId = NoId /\ Truthy(prompts.negative)

\* the source steps 1-3 are to choose for one channel
Exposes(node, patterns) ==
    node.wf /\ node.hasInputs
    /\ \E j \in 1..Len(patterns) : IsEdgeInput(node, patterns[j])
FirstNamedProducer(node, patterns) ==
    LET j == CHOOSE j \in 1..Len(patterns) :
                 /\ IsEdgeInput(node, patterns[j])
                 /\ \A k \in 1..(j - 1) : ~IsEdgeInput(node, patterns[k])
    IN  String(Input(node, patterns[j]).id)
Least(S) == CHOOSE i \in S : \A k \in S : i <= k
RankedSource(w, patterns) ==
    LET has == {i \in 1..Len(w.nodes) : Exposes(w.nodes[i], patterns)}
        both == {i \in has : /\ Exposes(w.nodes[i], INPUT_PATTERNS.positive)
                             /\ Exposes(w.nodes[i], INPUT_PATTERNS.negative)}
    IN  IF has = {} THEN NoId
        ELSE FirstNamedProducer(w.nodes[Least(IF both # {} THEN both ELSE has)],
                                patterns)
\* C9: after steps 1-3 each source is the producer of the first edge, in
\* pattern order, of the first ranked candidate exposing that channel: the
\* first node exposing both channels when there is one, else the first node
\* exposing the channel; the two sources are chosen independently.
StageASelection ==
    pc = "stageB" =>
        /\ positiveNodeId = RankedSource(workflow, INPUT_PATTERNS.positive)
        /\ negativeNodeId = RankedSource(workflow, INPUT_PATTERNS.negative)
\* the two sources were taken from two different one-channel nodes, the
\* negative one standing before the positive one in the graph
SourcesFromDifferentNodes ==
    /\ pc = "stageB"
    /\ positiveNodeId # NoId /\ negativeNodeId # NoId
    /\ \E i, j \in 1..Len(workflow.nodes) :
          /\ j < i
          /\ Exposes(workflow.nodes[i], INPUT_PATTERNS.positive)
          /\ ~Exposes(workflow.nodes[i], INPUT_PATTERNS.negative)
          /\ Exposes(workflow.nodes[j], INPUT_PATTERNS.negative)
          /\ ~Exposes(workflow.nodes[j], INPUT_PATTERNS.positive)
    /\ \A i \in 1..Len(workflow.nodes) :
          ~(Exposes(workflow.nodes[i], INPUT_PATTERNS.positive)
            /\ Exposes(workflow.nodes[i], INPUT_PATTERNS.negative))

\* step 4 with the classification by the producer's title
ProducerTitleIsNegative(w, inputValue) ==
    \/ TitleIncludes(NodeAt(w, String(inputValue.id)), cNegative)
    \/ TitleIncludes(NodeAt(w, String(inputValue.id)), cNag)
SpecifiedNegative(w, inputKey, inputValue) ==
    KeyIsNegative(inputKey) \/ ProducerTitleIsNegative(w, inputValue)
RECURSIVE SpecifiedInputs(_, _, _, _)
SpecifiedInputs(w, node, j, st) ==
    IF j > Len(node.inputs) THEN st
    ELSE LET inputKey == node.inputs[j][1]
             inputValue == node.inputs[j][2]
         IN  IF ~ConnectsToTextNode(w, inputValue)
             THEN SpecifiedInputs(w, node, j + 1, st)
             ELSE IF SpecifiedNegative(w, inputKey, inputValue)
             THEN SpecifiedInputs(w, node, j + 1,
                      IF st.neg = NoId
                      THEN [st EXCEPT !.neg = String(inputValue.id)] ELSE st)
             ELSE SpecifiedInputs(w, node, j + 1,
                      IF st.pos = NoId
                      THEN [st EXCEPT !.pos = String(inputValue.id)] ELSE st)
RECURSIVE SpecifiedNodes(_, _, _)
SpecifiedNodes(w, i, st) ==
    IF i > Len(w.nodes) THEN st
    ELSE IF ~w.nodes[i].wf \/ ~w.nodes[i].hasInputs THEN SpecifiedNodes(w, i + 1, st)
    ELSE SpecifiedNodes(w, i + 1, SpecifiedInputs(w, w.nodes[i], 1, st))
SpecifiedStageB(w, a) ==
    IF a.pos # NoId /\ a.neg # NoId THEN a ELSE SpecifiedNodes(w, 1, a)
\* C10: step 4 assigns the producer of an edge to a recognized text-encoding
\* node as the negative source (when none is set) exactly when the input key
\* or the producer's title contains "negative" or "nag", case-insensitively,
\* and as the positive source (when none is set) otherwise; a side set by
\* steps 1-3 is kept.
StageBClassification ==
    pc = "extractPos" =>
        /\ positiveNodeId = SpecifiedStageB(workflow, StageASelect(workflow)).pos
        /\ negativeNodeId = SpecifiedStageB(workflow, StageASelect(workflow)).neg

\* the fallback's state before its loop, and after the loop has passed the
\* first i nodes of the graph
FallbackStart ==
    [positive |-> prompts.positive, negative |-> prompts.negative, threw |-> FALSE]
FallbackUpTo(i) ==
    FallbackFrom([workflow EXCEPT !.nodes = SubSeq(@, 1, i)], 1, FallbackStart,
                 positiveNodeId, negativeNodeId)
\* the fallback assigns the text of node i to the side
FallbackTakes(i, side) == FallbackUpTo(i)[side] # FallbackUpTo(i - 1)[side]
FallbackRuns ==
    pc = "fallback" /\ ~(Truthy(prompts.positive) /\ Truthy(prompts.negative))
\* C11: the fallback never makes one node supply both results: it does not
\* take for one side the text of the node that, as the resolved source, has
\* supplied the other side, nor the text of one node for both sides.
FallbackNeverDoubleAssigns ==
    FallbackRuns =>
        \A i \in 1..Len(workflow.nodes) :
            /\ ~(/\ FallbackTakes(i, "negative")
                 /\ String(i) = positiveNodeId /\ Truthy(prompts.positive))
            /\ ~(/\ FallbackTakes(i, "positive")
                 /\ String(i) = negativeNodeId /\ Truthy(prompts.negative))
            /\ ~(FallbackTakes(i, "negative") /\ FallbackTakes(i, "positive"))

\* extractTextFromNode(nodeId, visited) as a function: the value returned
\* and the visited set as the call leaves it
RECURSIVE extractTextFromNode(_, _, _)
RECURSIVE ExtractOperands(_, _, _, _, _)
extractTextFromNode(w, nodeId, seen) ==
    IF nodeId = NoId \/ nodeId \in seen THEN [v |-> Str(""), seen |-> seen]
    ELSE IF ~HasNode(w, nodeId) \/ ~NodeAt(w, nodeId).wf
    THEN [v |-> Str(""), seen |-> seen \cup {nodeId}]
    ELSE LET d == Dispatch(NodeAt(w, nodeId))
         IN  IF d.kind = "ret" THEN [v |-> d.v, seen |-> seen \cup {nodeId}]
             ELSE LET r == ExtractOperands(w, d.todo, d.mode, <<>>, seen \cup {nodeId})
                  IN  [v |-> Combine([mode |-> d.mode, parts |-> r.parts,
                                      delim |-> d.delim]),
                       seen |-> r.seen]
ExtractOperands(w, todo, mode, parts, seen) ==
    IF todo = <<>> THEN [parts |-> parts, seen |-> seen]
    ELSE IF ~IsArray(Head(todo))
    THEN ExtractOperands(w, Tail(todo), mode, Append(parts, Head(todo)), seen)
    ELSE LET r == extractTextFromNode(w, String(Head(todo).id), seen)
         IN  ExtractOperands(w, Tail(todo), mode,
                             IF mode = "concat" /\ ~Truthy(r.v) THEN parts
                             ELSE Append(parts, r.v),
                             r.seen)

\* node i has an edge to node j
EdgeBetween(w, i, j) ==
    \E k \in 1..Len(w.nodes[i].inputs) :
        IsArray(w.nodes[i].inputs[k][2]) /\ w.nodes[i].inputs[k][2].id = j
RECURSIVE Closure(_, _)
Closure(R, k) ==
    IF k = 0 THEN R
    ELSE Closure(R \cup {<<x[1][1], x[2][2]>> : x \in {y \in R \X R : y[1][2] = y[2][1]}},
                 k - 1)
Acyclic(w) ==
    LET N == 1..Len(w.nodes)
        R == Closure({e \in N \X N : EdgeBetween(w, e[1], e[2])}, Len(w.nodes))
    IN  \A i \in N : <<i, i>> \notin R
\* text(x): the literal, or what the producer of the edge resolves to when
\* extractTextFromNode is called for it with a fresh visited set
TextOf(w, x) ==
    IF IsArray(x) THEN JoinStr(extractTextFromNode(w, String(x.id), {}).v)
    ELSE JoinStr(x)
\* a call for a string-concatenate node with both operands is about to return
ConcatenateReturns ==
    /\ Extracting
    /\ TopFrame.st = "run" /\ TopFrame.todo = <<>> /\ TopFrame.mode = "join"
    /\ Input(NodeAt(workflow, TopFrame.id), kStringA) # Undef
    /\ Input(NodeAt(workflow, TopFrame.id), kStringB) # Undef
\* C12: on an acyclic graph a string-concatenate node resolves to
\* text(string_a), then the delimiter field ("" when absent), then
\* text(string_b), also when both operands name the same producer and when
\* an operand is the empty string.
ConcatenateJoinsOperands ==
    (ConcatenateReturns /\ Acyclic(workflow)) =>
        LET node == NodeAt(workflow, TopFrame.id)
        IN  Combine(TopFrame) =
               Str(TextOf(workflow, Input(node, kStringA))
                   \o JoinStr(OrElse(Input(node, kDelimiter), Str("")))
                   \o TextOf(workflow, Input(node, kStringB)))

(***************************************************************************)
(* parsePNGMetadata.  Offsets are the code's, counted from 0; byte i of    *)
(* the buffer is buffer[i + 1].                                            *)
(***************************************************************************)
pngSignature == <<137, 80, 78, 71, 13, 10, 26, 10>>
tEXt == <<116, 69, 88, 116>>
iTXt == <<105, 84, 88, 116>>
IEND == <<73, 69, 78, 68>>
IDAT == <<73, 68, 65, 84>>

byteLength(buf) == Len(buf)
\* dataView.getUint8(i) is a RangeError outside the buffer
InRange(buf, i, n) == i >= 0 /\ i + n <= byteLength(buf)
getUint8(buf, i) == buf[i + 1]
\* dataView.getUint32(i): big-endian
getUint32(buf, i) ==
    ((buf[i + 1] * 256 + buf[i + 2]) * 256 + buf[i + 3]) * 256 + buf[i + 4]

\* the for loop of lines 37-42: "null" at the first byte that differs,
\* "RangeError" at the first index past the end, "ok" after 8 equal bytes
RECURSIVE SignatureFrom(_, _)
SignatureFrom(buf, i) ==
    IF i >= 8 THEN "ok"
    ELSE IF ~InRange(buf, i, 1) THEN "RangeError"
    ELSE IF getUint8(buf, i) # pngSignature[i + 1] THEN "null"
    ELSE SignatureFrom(buf, i + 1)
SignatureCheck(buf) == SignatureFrom(buf, 0)

\* new TextDecoder('utf-8').decode: an ASCII byte is its own code unit, a byte
\* that cannot start a UTF-8 sequence becomes U+FFFD
DecodeByte(b) == IF b < 128 THEN b ELSE 65533
decode(bytes) == [i \in 1..Len(bytes) |-> DecodeByte(bytes[i])]
\* text.indexOf('\0'), from 0, -1 when absent
indexOfNul(text) ==
    IF \E i \in 1..Len(text) : text[i] = 0
    THEN (CHOOSE i \in 1..Len(text) : text[i] = 0 /\ \A k \in 1..(i - 1) : text[k] # 0) - 1
    ELSE -1
\* text.substring(a, b) and text.substring(a)
substring(text, a, b) == SubSeq(text, a + 1, b)
substringFrom(text, a) == SubSeq(text, a + 1, Len(text))

\* an assignment that keeps a keyword's first value
AssignKeepingFirst(md, keyword, value) == md @@ (keyword :> value)
\* metadata[keyword] = value (line 61)
Assign(md, keyword, value) == (keyword :> value) @@ md

\* lines 54-63 for a text chunk whose payload is inside the buffer
WithText(md, payload) ==
    LET text == decode(payload)
        nullIndex == indexOfNul(text)
    IN  IF nullIndex # -1
        THEN Assign(md, substring(text, 0, nullIndex), substringFrom(text, nullIndex + 1))
        ELSE md

PngReturn(r) == pngPc' = "done" /\ pngResult' = r

\* an advance by the payload alone
NextOffsetByLength(off, length) == off + length
\* offset += 4; offset += 4; offset += length + 4 (lines 47, 52, 65)
NextOffset(off, length) == off + 4 + 4 + length + 4

\* lines 32-44
CheckSignature ==
    /\ pngPc = "sig"
    /\ LET r == SignatureCheck(buffer)
       IN  IF r = "ok"
           THEN pngPc' = "loop" /\ offset' = 8 /\ pngResult' = pngResult
           ELSE PngReturn(r) /\ offset' = offset
    /\ UNCHANGED <<buffer, metadata, chunks>>
    /\ UNCHANGED resolverVars /\ updIdle

\* one iteration of the while loop (lines 45-67)
ReadChunk ==
    /\ pngPc = "loop"
    /\ offset < byteLength(buffer)
    /\ IF ~InRange(buffer, offset, 4) \/ ~InRange(buffer, offset + 4, 4)
       THEN PngReturn("RangeError") /\ UNCHANGED <<offset, metadata>>
       ELSE LET length == getUint32(buffer, offset)
                chunkType == SubSeq(buffer, offset + 5, offset + 8)
                data == offset + 8
                isText == chunkType = tEXt \/ chunkType = iTXt
            IN  IF isText /\ ~InRange(buffer, data, length)
                THEN PngReturn("RangeError") /\ UNCHANGED <<offset, metadata>>
                ELSE /\ metadata' = IF isText
                                    THEN WithText(metadata,
                                                  SubSeq(buffer, data + 1, data + length))
                                    ELSE metadata
                     /\ offset' = NextOffset(offset, length)
                     /\ IF chunkType = IEND
                        THEN PngReturn("metadata")
                        ELSE UNCHANGED <<pngPc, pngResult>>
    /\ UNCHANGED <<buffer, chunks>>
    /\ UNCHANGED resolverVars /\ updIdle

\* the loop condition fails: return metadata (line 68)
FinishScan ==
    /\ pngPc = "loop"
    /\ ~(offset < byteLength(buffer))
    /\ PngReturn("metadata")
    /\ UNCHANGED <<buffer, offset, metadata, chunks>>
    /\ UNCHANGED resolverVars /\ updIdle

(***************************************************************************)
(* The buffers the reader is run on: the serialization of at most          *)
(* MaxChunks chunk records behind the signature, cut at any length, and    *)
(* the same with one signature byte replaced.                              *)
(***************************************************************************)
U32(n) == <<(n \div 16777216) % 256, (n \div 65536) % 256, (n \div 256) % 256, n % 256>>
Crc == <<0, 0, 0, 0>>
ChunkBytes(c) == U32(Len(c.data)) \o c.type \o c.data \o Crc
RECURSIVE Serialize(_)
Serialize(cs) == IF cs = <<>> THEN <<>> ELSE ChunkBytes(Head(cs)) \o Serialize(Tail(cs))

\* keyword\0value payloads, a payload without NUL, an empty payload
TextPayloads == {<<97, 0, 120>>, <<97, 0, 255>>, <<98, 0>>, <<97, 98>>}
ChunkRecords ==
    {[type |-> t, data |-> d] : t \in {tEXt, iTXt}, d \in TextPayloads}
    \cup {[type |-> IEND, data |-> <<>>], [type |-> IDAT, data |-> <<>>],
          [type |-> IDAT, data |-> <<1, 2>>]}
ChunkLists == UNION {[1..n -> ChunkRecords] : n \in 0..MaxChunks}

BadSignature(b) == [i \in 1..8 |-> IF i = b THEN 0 ELSE pngSignature[i]]

InitPNG ==
    /\ chunks \in ChunkLists
    /\ \/ \E k \in 0..Len(pngSignature \o Serialize(chunks)) :
             buffer = SubSeq(pngSignature \o Serialize(chunks), 1, k)
       \/ \E b \in 1..8 :
             \E k \in (0..8) \cup {Len(pngSignature \o Serialize(chunks))} :
                buffer = SubSeq(BadSignature(b) \o Serialize(chunks), 1, k)
    /\ offset = 0
    /\ metadata = <<>>
    /\ pngPc = "sig"
    /\ pngResult = "none"
    /\ ResolverIdle /\ UpdIdleInit
NextPNG ==
    \/ CheckSignature
    \/ ReadChunk
    \/ FinishScan
SpecPNG == InitPNG /\ [][NextPNG]_vars
\* parsePNGMetadata is synchronous: once called it runs on until it returns
FairSpecPNG == SpecPNG /\ WF_vars(NextPNG)

(***************************************************************************)
(* Properties of parsePNGMetadata.                                         *)
(***************************************************************************)
SignatureValid(buf) == Len(buf) >= 8 /\ SubSeq(buf, 1, 8) = pngSignature

\* C3: for a buffer shorter than 8 bytes (the empty one included) or whose
\* first 8 bytes are not the signature, parsePNGMetadata returns null and
\* does not raise.
NullOnBadSignature ==
    (pngPc = "done" /\ ~SignatureValid(buffer)) => pngResult = "null"

\* a chunk header or a declared payload runs past the end of the buffer
RECURSIVE TruncatedFrom(_, _)
TruncatedFrom(buf, off) ==
    /\ off < Len(buf)
    /\ \/ off + 8 > Len(buf)
       \/ off + 8 + getUint32(buf, off) > Len(buf)
       \/ /\ SubSeq(buf, off + 5, off + 8) # IEND
          /\ TruncatedFrom(buf, off + 8 + getUint32(buf, off) + 4)
Truncated(buf) == SignatureValid(buf) /\ TruncatedFrom(buf, 8)
\* C4: for a buffer with a valid signature in which a chunk header or a
\* declared payload extends past the end, parsePNGMetadata returns null:
\* it neither raises nor returns the mapping of the chunks read so far.
NullOnTruncation ==
    (pngPc = "done" /\ Truncated(buffer)) => pngResult = "null"

\* the mapping the text chunks before the first IEND stand for
IsTextChunk(c) == c.type \in {tEXt, iTXt}
HasKeyword(c) == \E i \in 1..Len(c.data) : c.data[i] = 0
NulAt(c) == CHOOSE i \in 1..Len(c.data) :
                c.data[i] = 0 /\ \A k \in 1..(i - 1) : c.data[k] # 0
Keyword(c) == decode(SubSeq(c.data, 1, NulAt(c) - 1))
Value(c) == decode(SubSeq(c.data, NulAt(c) + 1, Len(c.data)))
\* the indexes of the chunks the scan covers: up to the first IEND
BeforeIEND(cs) == {i \in 1..Len(cs) : \A k \in 1..(i - 1) : cs[k].type # IEND}
Carriers(cs) == {i \in BeforeIEND(cs) : IsTextChunk(cs[i]) /\ HasKeyword(cs[i])}
LastCarrier(cs, kw) ==
    CHOOSE i \in Carriers(cs) :
        /\ Keyword(cs[i]) = kw
        /\ \A k \in Carriers(cs) : Keyword(cs[k]) = kw => k <= i
ExpectedMapping(cs) ==
    [kw \in {Keyword(cs[i]) : i \in Carriers(cs)} |-> Value(cs[LastCarrier(cs, kw)])]
WellFormed == buffer = pngSignature \o Serialize(chunks)
AtChunk == pngPc = "loop" /\ offset < byteLength(buffer) /\ InRange(buffer, offset, 8)
\* C14: the scan starts at offset 8; every iteration that completes moves
\* the offset on by exactly 8 + length + 4, whatever the chunk's type, so the
\* offset strictly increases; the scan ends at the first IEND chunk and when
\* the offset has reached the buffer length; it ends on every buffer.
ScanAdvancesAndTerminates ==
    /\ [][(pngPc = "sig" /\ pngPc' = "loop") => offset' = 8]_vars
    /\ [][(AtChunk /\ pngResult' # "RangeError") =>
             /\ offset' = offset + 8 + getUint32(buffer, offset) + 4
             /\ offset' > offset]_vars
    /\ [][(AtChunk /\ pngResult' # "RangeError"
             /\ SubSeq(buffer, offset + 5, offset + 8) = IEND) => pngPc' = "done"]_vars
    /\ [][(pngPc = "loop" /\ offset >= byteLength(buffer)) =>
             (pngPc' = "done" /\ pngResult' = "metadata")]_vars
    /\ [](pngPc = "loop" => offset >= 8)
    /\ <>(pngPc = "done")
\* a container of two chunks, one of them of length zero, none an IEND, was
\* scanned to the end of the buffer
ScanEndedWithoutIEND ==
    /\ pngPc = "done" /\ pngResult = "metadata"
    /\ WellFormed /\ Len(chunks) = 2
    /\ \A i \in 1..Len(chunks) : chunks[i].type # IEND
    /\ \E i \in 1..Len(chunks) : chunks[i].data = <<>>
    /\ offset = byteLength(buffer)

(***************************************************************************)
(* updatePromptsFromImage and the callers of it.  An image is what the     *)
(* host and the two components make of a file: how far the pipeline gets   *)
(* (kind) and, when it gets to the end, the prompts extracted from it.     *)
(***************************************************************************)
ImageNames == {"X.png", "Y.png"}
\* where the try block of lines 355-384 stops
ImageKinds == {"reject",        \* api.fetchApi rejects
               "status",        \* res.ok is false
               "readerNull",    \* parsePNGMetadata returns null
               "readerThrows",  \* parsePNGMetadata raises a RangeError
               "noPrompt",      \* the metadata has no prompt key
               "badJSON",       \* JSON.parse raises
               "ok"}            \* extractPromptsFromWorkflow returns prompts
Image(name, kind, hasPos, hasNeg) ==
    [name |-> name, kind |-> kind,
     positive |-> IF hasPos THEN Str("positive of " \o name) ELSE Str(""),
     negative |-> IF hasNeg THEN Str("negative of " \o name) ELSE Str("")]
Images ==
    {Image(n, k, FALSE, FALSE) : n \in ImageNames, k \in ImageKinds \ {"ok"}}
    \cup {Image(n, "ok", p, q) : n \in ImageNames, p \in BOOLEAN, q \in BOOLEAN}

\* lines 349-356: the synchronous head of updatePromptsFromImage, up to the
\* await of the fetch
StartUpdate(img) ==
    /\ calls' = Append(calls, [file |-> img, pc |-> "fetch"])
    /\ widgets' = [widgets EXCEPT
                     !.positive = IF widgets.hasPositive THEN Str("") ELSE @,
                     !.negative = IF widgets.hasNegative THEN Str("") ELSE @]

\* imageWidget.callback(value) on a selection (lines 407-423)
SelectImage(img) ==
    /\ Len(calls) < MaxCalls
    /\ selected' = img.name
    /\ StartUpdate(img)
    /\ UNCHANGED timer
    /\ UNCHANGED resolverVars /\ pngIdle

\* the upload answered ok: lines 458-465
UploadCompleted(img) ==
    /\ Len(calls) < MaxCalls
    /\ selected' = img.name
    /\ StartUpdate(img)
    /\ UNCHANGED timer
    /\ UNCHANGED resolverVars /\ pngIdle

\* the timer of lines 426-431 fires
InitialLoad(img) ==
    /\ timer
    /\ Len(calls) < MaxCalls
    /\ img.name = selected
    /\ timer' = FALSE
    /\ StartUpdate(img)
    /\ UNCHANGED selected
    /\ UNCHANGED resolverVars /\ pngIdle

\* the fetch of line 356 settles; lines 357-359
FetchSettles(c) ==
    /\ c \in 1..Len(calls)
    /\ calls[c].pc = "fetch"
    /\ calls' = [calls EXCEPT ![c].pc =
                    IF calls[c].file.kind \in {"reject", "status"} THEN "done"
                    ELSE "buffer"]
    /\ UNCHANGED <<widgets, selected, timer>>
    /\ UNCHANGED resolverVars /\ pngIdle

\* res.arrayBuffer() settles; lines 360-387
BufferSettles(c) ==
    /\ c \in 1..Len(calls)
    /\ calls[c].pc = "buffer"
    /\ calls' = [calls EXCEPT ![c].pc = "done"]
    /\ LET img == calls[c].file
       IN  IF img.kind = "ok"
           THEN widgets' = [widgets EXCEPT
                   !.positive = IF widgets.hasPositive /\ Truthy(img.positive)
                                THEN img.positive ELSE @,
                   !.negative = IF widgets.hasNegative /\ Truthy(img.negative)
                                THEN img.negative ELSE @]
           ELSE UNCHANGED widgets
    /\ UNCHANGED <<selected, timer>>
    /\ UNCHANGED resolverVars /\ pngIdle

InitUpdate ==
    /\ \E hp, hn \in BOOLEAN, pv, nv \in {Str(""), Str("typed by the user")} :
          widgets = [positive |-> IF hp THEN pv ELSE Str(""),
                     negative |-> IF hn THEN nv ELSE Str(""),
                     hasPositive |-> hp, hasNegative |-> hn]
    /\ calls = <<>>
    /\ selected \in ImageNames \cup {""}
    /\ timer = (selected # "")
    /\ ResolverIdle /\ PngIdleInit
NextUpdate ==
    \/ \E img \in Images : SelectImage(img)
    \/ \E img \in Images : UploadCompleted(img)
    \/ \E img \in Images : InitialLoad(img)
    \/ \E c \in 1..MaxCalls : FetchSettles(c)
    \/ \E c \in 1..MaxCalls : BufferSettles(c)
SpecUpdate == InitUpdate /\ [][NextUpdate]_vars

(***************************************************************************)
(* Properties of updatePromptsFromImage.                                   *)
(***************************************************************************)
\* what a call leaves in a field according to its own image
OwnResult(call, side) ==
    IF call.file.kind = "ok" /\ Truthy(call.file[side]) THEN call.file[side]
    ELSE Str("")
Completes(c) == c \in 1..Len(calls) /\ calls[c].pc # "done" /\ calls'[c].pc = "done"

\* C7: when a call of updatePromptsFromImage completes, each of the two
\* fields holds the prompt that call extracted for the side when it is
\* non-empty, and the empty string otherwise (a failed fetch, a failed read,
\* no prompt key, a failed JSON parse leave the fields cleared).
FieldsHoldOwnResult ==
    [][\A c \in 1..MaxCalls : Completes(c) =>
          /\ widgets.hasPositive => widgets'.positive = OwnResult(calls[c], "positive")
          /\ widgets.hasNegative => widgets'.negative = OwnResult(calls[c], "negative")
      ]_vars

\* every call has finished, and the last one was fired for another image
\* than the calls before it
AllFinishedAfterReselect ==
    /\ Len(calls) >= 2
    /\ \A c \in 1..Len(calls) : calls[c].pc = "done"
    /\ \A c \in 1..(Len(calls) - 1) : calls[c].file.name # calls[Len(calls)].file.name
\* C13: when the callback was fired for image X and then for image Y and
\* both calls have finished, in whatever order their fetches settled, the
\* two fields hold what was extracted from Y and nothing from X.
LastSelectedWins ==
    AllFinishedAfterReselect =>
        /\ widgets.hasPositive =>
              widgets.positive = OwnResult(calls[Len(calls)], "positive")
        /\ widgets.hasNegative =>
              widgets.negative = OwnResult(calls[Len(calls)], "negative")

====
